---- MODULE Spec2Model ----
(***************************************************************************)
(* HomeworkPrinter: the equation synthesizer (generate_valid_equation_     *)
(* system) and the three page layout planners (create_pdf of               *)
(* src/math/generate_liner_equation_system.1.py, of                        *)
(* src/math/generate_liner_equation_system.py and of                       *)
(* Hannah/generate_equation_system.py).                                    *)
(*                                                                         *)
(* Strings the program edits character by character (the equation texts)   *)
(* are sequences of one-character strings.  Lengths are exact rationals    *)
(* [num, den] in units of 1/10 mm (reportlab's letter page is 612 x 792 pt *)
(* = 215.9 x 279.4 mm), where the program computes in floating point.      *)
(***************************************************************************)
EXTENDS Integers, Sequences, FiniteSets, TLC

VARIABLES
    \* generate_valid_equation_system: position and locals
    pc, x, y, a1, b1, a2, b2, c1, c2, ret,
    \* the four-step fixup applied to one equation string
    fpc, raw, equation, once,
    \* create_pdf: parameters, position and the canvas
    variant, num_columns, equations_per_column, page_num, seed,
    lpc, page, col, instructions, solutions, assigned, dropped, pages

genVars == <<pc, x, y, a1, b1, a2, b2, c1, c2, ret>>
fixVars == <<fpc, raw, equation, once>>
layVars == <<variant, num_columns, equations_per_column, page_num, seed,
             lpc, page, col, instructions, solutions, assigned, dropped, pages>>
vars == <<genVars, fixVars, layVars>>

----------------------------------------------------------------------------
(* Bounds of the model *)

\* how many values of DrawOrder the random source yields
NumDrawVals == 4
\* how many values of ConstOrder the constant term of a formatted equation
\* is drawn from
NumConstVals == 12
\* create_pdf's arguments
MaxColumns == 3
MaxPerColumn == 46
MaxPages == 2
\* how many families of solutions the pre-generated systems are drawn from
MaxSeed == 0

----------------------------------------------------------------------------
(* Text *)

Abs(n) == IF n < 0 THEN -n ELSE n

Digits == <<"0", "1", "2", "3", "4", "5", "6", "7", "8", "9">>

RECURSIVE NatStr(_)
NatStr(n) == IF n < 10 THEN <<Digits[n + 1]>>
             ELSE NatStr(n \div 10) \o <<Digits[(n % 10) + 1]>>

\* str(n) / f"{n}" of an int, as a sequence of characters
IntStr(n) == IF n < 0 THEN <<"-">> \o NatStr(-n) ELSE NatStr(n)

\* whether s starts with the characters of old
StartsWith(s, old) == Len(s) >= Len(old) /\ SubSeq(s, 1, Len(old)) = old

\* str.replace(old, new): every non-overlapping occurrence, left to right
RECURSIVE StrReplace(_, _, _)
StrReplace(s, old, new) ==
    IF Len(s) < Len(old) THEN s
    ELSE IF StartsWith(s, old)
         THEN new \o StrReplace(SubSeq(s, Len(old) + 1, Len(s)), old, new)
         ELSE <<Head(s)>> \o StrReplace(Tail(s), old, new)

format_term(value, variable) ==
    IF value = 0 THEN <<>>
    ELSE IF value = 1 THEN <<variable>>
    ELSE IF value = -1 THEN <<"-", variable>>
    ELSE IntStr(value) \o <<variable>>

\* f"{format_term(a, 'x')} + {format_term(b, 'y')} = {c}"
EquationText(a, b, c) ==
    format_term(a, "x") \o <<" ", "+", " ">> \o format_term(b, "y")
        \o <<" ", "=", " ">> \o IntStr(c)

\* a fixup whose fourth pattern forgot the variable letter
FixupsLooseOne(s) ==
    LET s1 == StrReplace(s, <<"+", " ", "-">>, <<"-", " ">>)
        s2 == StrReplace(s1, <<"-", " ", "-">>, <<"+", " ">>)
        s3 == StrReplace(s2, <<" ", "1", "x">>, <<" ", "x">>)
    IN  StrReplace(s3, <<" ", "1">>, <<" ">>)

\* the four replacements, in the program's order
Fixups(s) ==
    LET s1 == StrReplace(s, <<"+", " ", "-">>, <<"-", " ">>)
        s2 == StrReplace(s1, <<"-", " ", "-">>, <<"+", " ">>)
        s3 == StrReplace(s2, <<" ", "1", "x">>, <<" ", "x">>)
    IN  StrReplace(s3, <<" ", "1", "y">>, <<" ", "y">>)

----------------------------------------------------------------------------
(* generate_valid_equation_system *)

MinValue == -20
MaxValue == 20
MaxConst == 120

\* the values weighted_random can return
Values == MinValue..MaxValue

\* the values the model's random source yields: the first NumDrawVals of
\* these (all of weight > 0 in weighted_random)
DrawOrder == <<0, 20, -20, 3, -3, -1, 1, 2, -7, 5>>
DrawVals == {DrawOrder[i] : i \in 1..NumDrawVals}

NoLocals == /\ x' = 0 /\ y' = 0 /\ a1' = 0 /\ b1' = 0 /\ a2' = 0 /\ b2' = 0
            /\ c1' = 0 /\ c2' = 0

\* a1 == 0 or b1 == 0 or a2 == 0 or b2 == 0, written with "and"
ZeroRejectedAll == a1 = 0 /\ b1 = 0 /\ a2 = 0 /\ b2 = 0

ZeroRejected == a1 = 0 \/ b1 = 0 \/ a2 = 0 \/ b2 = 0

\* the range test without abs (the docstring's "a1x + b1y <= 120")
RangeRejectedNoAbs(k1, k2) == k1 > MaxConst \/ k2 > MaxConst

RangeRejected(k1, k2) == Abs(k1) > MaxConst \/ Abs(k2) > MaxConst

GenInit ==
    /\ pc = "draw"
    /\ x = 0 /\ y = 0 /\ a1 = 0 /\ b1 = 0 /\ a2 = 0 /\ b2 = 0
    /\ c1 = 0 /\ c2 = 0
    /\ ret = <<>>

GenIdle ==
    /\ pc = "idle"
    /\ x = 0 /\ y = 0 /\ a1 = 0 /\ b1 = 0 /\ a2 = 0 /\ b2 = 0
    /\ c1 = 0 /\ c2 = 0
    /\ ret = <<>>

\* the six draws at the head of an iteration
Draw ==
    /\ pc = "draw"
    /\ \E vx \in DrawVals, vy \in DrawVals, va1 \in DrawVals,
          vb1 \in DrawVals, va2 \in DrawVals, vb2 \in DrawVals :
            /\ x' = vx /\ y' = vy
            /\ a1' = va1 /\ b1' = vb1 /\ a2' = va2 /\ b2' = vb2
    /\ pc' = "test"
    /\ UNCHANGED <<c1, c2, ret, fixVars, layVars>>

\* a zero coefficient: continue.  The locals are dead at the loop head
\* (each is assigned before it is read again), so the model clears them.
RejectZero ==
    /\ pc = "test"
    /\ ZeroRejected
    /\ NoLocals
    /\ pc' = "draw"
    /\ UNCHANGED <<ret, fixVars, layVars>>

\* a constant out of range: continue
RejectRange ==
    /\ pc = "test"
    /\ ~ZeroRejected
    /\ RangeRejected(a1 * x + b1 * y, a2 * x + b2 * y)
    /\ NoLocals
    /\ pc' = "draw"
    /\ UNCHANGED <<ret, fixVars, layVars>>

\* the two formatted equations of the accepted tuple, after the fixups
equations ==
    <<Fixups(EquationText(a1, b1, c1)), Fixups(EquationText(a2, b2, c2))>>

\* break and return (equations, (x, y)).  The returned strings are a
\* function of the locals, which no later step changes: the record in ret
\* holds the solution, and equations gives its strings.
Accept ==
    /\ pc = "test"
    /\ ~ZeroRejected
    /\ ~RangeRejected(a1 * x + b1 * y, a2 * x + b2 * y)
    /\ c1' = a1 * x + b1 * y
    /\ c2' = a2 * x + b2 * y
    /\ ret' = <<[solution |-> <<x, y>>]>>
    /\ pc' = "returned"
    /\ UNCHANGED <<x, y, a1, b1, a2, b2, fixVars, layVars>>

GenNext == Draw \/ RejectZero \/ RejectRange \/ Accept

----------------------------------------------------------------------------
(* The fixups applied to an arbitrary formatted equation *)

ConstOrder == <<0, 7, -7, 1, -1, 10, 11, -11, 19, -100, 120, -120, 101, -19>>
ConstVals == {ConstOrder[i] : i \in 1..NumConstVals}

FixInit ==
    /\ fpc = "raw"
    /\ \E a \in Values, b \in Values, c \in ConstVals :
            raw = EquationText(a, b, c)
    /\ equation = raw
    /\ once = <<>>

FixIdle ==
    /\ fpc = "idle"
    /\ raw = <<>>
    /\ equation = <<>>
    /\ once = <<>>

\* the loop body over one equation string
ApplyFixups ==
    /\ fpc = "raw"
    /\ equation' = Fixups(equation)
    /\ once' = equation'
    /\ fpc' = "fixed"
    /\ UNCHANGED <<raw, genVars, layVars>>

\* the same four replacements applied to the fixed-up string
ApplyFixupsAgain ==
    /\ fpc = "fixed"
    /\ equation' = Fixups(equation)
    /\ fpc' = "fixed_twice"
    /\ UNCHANGED <<raw, once, genVars, layVars>>

FixNext == ApplyFixups \/ ApplyFixupsAgain

----------------------------------------------------------------------------
(* Lengths *)

\* model units (1/10 mm) per millimetre
mm == 10
\* reportlab.lib.pagesizes.letter: 612 x 792 pt = 215.9 x 279.4 mm
PageWidth == 2159
PageHeight == 2794

\* Exact rationals for the program's floats.  For the bounded arguments no
\* comparison of the program is within rounding distance of equality
\* (base_y - k * 229.4 mm / n never equals 30 mm, 254.4 mm - k * 24.5 mm
\* never equals 45 mm), so the exact order is the floats' order.
Rat(n, d) == [num |-> n, den |-> d]
RInt(n) == Rat(n, 1)
RAdd(a, b) == IF a.den = b.den THEN Rat(a.num + b.num, a.den)
              ELSE Rat(a.num * b.den + b.num * a.den, a.den * b.den)
RSub(a, b) == IF a.den = b.den THEN Rat(a.num - b.num, a.den)
              ELSE Rat(a.num * b.den - b.num * a.den, a.den * b.den)
RMulInt(a, n) == Rat(a.num * n, a.den)
RLess(a, b) == a.num * b.den < b.num * a.den
REq(a, b) == a.num * b.den = b.num * a.den

Min(a, b) == IF a < b THEN a ELSE b

\* s[lo:hi] of a Python list, 0 <= lo
PySlice(s, lo, hi) == SubSeq(s, Min(lo, Len(s)) + 1, Min(hi, Len(s)))

----------------------------------------------------------------------------
(* The pre-generated systems *)

\* the solution of the i-th generated system (1-based), in [-20, 20]^2
Sol(i) == <<((7 * i + seed) % 41) - 20, ((11 * i + 3 * seed) % 41) - 20>>

total_equations == num_columns * equations_per_column * page_num

\* the list filled by the generation loop: (eq, sol) tuples.  The layout
\* never reads the equation strings, so eq is the system's identity.
all_equations == [i \in 1..total_equations |-> [eq |-> i, sol |-> Sol(i)]]

\* "  ".join(parts)
RECURSIVE Join(_)
Join(parts) ==
    IF Len(parts) = 0 THEN ""
    ELSE IF Len(parts) = 1 THEN parts[1]
    ELSE LET h == Len(parts) \div 2
         IN  Join(SubSeq(parts, 1, h)) \o "  "
                \o Join(SubSeq(parts, h + 1, Len(parts)))

\* "  ".join([f"{i+1}.({s[0]},{s[1]})" for i, s in enumerate(solutions)])
footer_text(sols) ==
    Join([i \in 1..Len(sols) |->
            ToString(i) \o ".(" \o ToString(sols[i][1]) \o ","
                \o ToString(sols[i][2]) \o ")"])

\* the x of column i: margin + i * (column_width + column_gap)
x_positions(layout, i) ==
    RAdd(RInt(layout.margin),
         RMulInt(RAdd(layout.column_width, RInt(layout.column_gap)), i))

LayInit(variants) ==
    /\ variant \in variants
    /\ num_columns \in 1..MaxColumns
    /\ equations_per_column \in 0..MaxPerColumn
    /\ page_num \in 1..MaxPages
    /\ seed \in 0..MaxSeed
    /\ lpc = "pages" /\ page = 0 /\ col = 0
    /\ instructions = <<>> /\ solutions = <<>> /\ assigned = <<>>
    /\ dropped = 0 /\ pages = <<>>

LayIdle ==
    /\ variant = "none"
    /\ num_columns = 0 /\ equations_per_column = 0 /\ page_num = 0 /\ seed = 0
    /\ lpc = "idle" /\ page = 0 /\ col = 0
    /\ instructions = <<>> /\ solutions = <<>> /\ assigned = <<>>
    /\ dropped = 0 /\ pages = <<>>

\* for page in range(page_num): the page's slice and the empty answer list
BeginPage(v) ==
    /\ variant = v
    /\ lpc = "pages"
    /\ page < page_num
    /\ lpc' = "columns"
    /\ col' = 0
    /\ instructions' = <<>>
    /\ solutions' = <<>>
    /\ assigned' = <<>>
    /\ dropped' = 0
    /\ UNCHANGED <<variant, num_columns, equations_per_column, page_num, seed,
                   page, pages, genVars, fixVars>>

\* the footer draw, showPage and the next page
EndPage(v) ==
    /\ variant = v
    /\ lpc = "columns"
    /\ col = num_columns
    /\ pages' = Append(pages, [instructions |-> instructions,
                               footer_text |-> footer_text(solutions),
                               solutions |-> solutions,
                               assigned |-> assigned,
                               dropped |-> dropped])
    /\ page' = page + 1
    /\ lpc' = "pages"
    /\ UNCHANGED <<variant, num_columns, equations_per_column, page_num, seed,
                   col, instructions, solutions, assigned, dropped,
                   genVars, fixVars>>

\* c.save() after the last page
Save(v) ==
    /\ variant = v
    /\ lpc = "pages"
    /\ page = page_num
    /\ lpc' = "saved"
    /\ UNCHANGED <<variant, num_columns, equations_per_column, page_num, seed,
                   page, col, instructions, solutions, assigned, dropped,
                   pages, genVars, fixVars>>

\* what one column's loop adds to the page.  dropped is the number of
\* dropped items the page reports: no statement of the loop (nor its break)
\* records one, so it keeps the 0 of the page's begin.
ColumnStep(v, placed, actual_count) ==
    /\ variant = v
    /\ lpc = "columns"
    /\ col < num_columns
    /\ instructions' = instructions \o placed
    /\ solutions' = solutions \o [i \in 1..Len(placed) |-> placed[i].solution]
    /\ assigned' = Append(assigned, actual_count)
    /\ col' = col + 1
    /\ UNCHANGED <<variant, num_columns, equations_per_column, page_num, seed,
                   lpc, page, dropped, pages, genVars, fixVars>>

\* one draw_equation call: the number, the origin and the system drawn
Instruction(eq_num, px, py, item, k, idx) ==
    [eq_num |-> eq_num, x |-> px, y |-> py, equations |-> item.eq,
     solution |-> item.sol, col |-> k, slot |-> idx]

----------------------------------------------------------------------------
(* src/math/generate_liner_equation_system.1.py: dynamic fit *)

calculate_layout_dyn(params) ==
    LET margin == 15 * mm
        column_gap == 10 * mm
        base_y == PageHeight - 25 * mm
        line_height == 7 * mm
        footer_y == 15 * mm
        available_height == base_y - footer_y
        equation_height == 2 * line_height
    IN  [margin |-> margin, column_gap |-> column_gap, base_y |-> base_y,
         line_height |-> line_height, footer_y |-> footer_y,
         num_columns |-> params.num_columns,
         column_width |->
            Rat(PageWidth - 2 * margin - (params.num_columns - 1) * column_gap,
                params.num_columns),
         equations_per_column |-> available_height \div equation_height]

layout_dyn == calculate_layout_dyn([num_columns |-> num_columns])

\* draw_equation's return value: the next system's y
draw_equation_dyn(py, line_height) == RSub(py, RInt(2 * line_height))

\* the number drawn, without the page's offset
eq_num_dyn_local(start_idx, eq_index) == eq_index + 1

eq_num_dyn(start_idx, eq_index) == start_idx + eq_index + 1

\* spacing between the items instead of below each
spacing_count_gaps(actual_count) == actual_count - 1

spacing_count_dyn(actual_count) == actual_count

\* remaining_space / spacing_count if spacing_count > 0 else 0
spacing_height_dyn(py, actual_count) ==
    LET total_available_space ==
            RSub(py, RInt(layout_dyn.footer_y + 10 * mm))
        equation_height == 2 * layout_dyn.line_height
        total_equations_height == actual_count * equation_height
        remaining_space ==
            RSub(total_available_space, RInt(total_equations_height))
        spacing_count == spacing_count_dyn(actual_count)
    IN  IF spacing_count > 0
        THEN Rat(remaining_space.num, remaining_space.den * spacing_count)
        ELSE RInt(0)

\* the bottom check without its 15 mm
below_limit_no_margin(py) == RLess(py, RInt(layout_dyn.footer_y))

\* y < layout["footer_y"] + 15 * mm
below_limit_dyn(py) == RLess(py, RInt(layout_dyn.footer_y + 15 * mm))

\* for idx in range(actual_count): draw, advance, break below the limit
RECURSIVE column_loop_dyn(_, _, _, _)
column_loop_dyn(c, idx, py, acc) ==
    IF idx >= c.actual_count THEN acc
    ELSE LET eq_index == c.col_start + idx
             item == c.col_data[idx + 1]
             eq_num == eq_num_dyn(c.start_idx, eq_index)
             new_y == draw_equation_dyn(py, layout_dyn.line_height)
             y2 == RSub(new_y, c.spacing_height)
             acc2 == Append(acc, Instruction(eq_num, c.x, py, item, c.col, idx))
         IN  IF below_limit_dyn(y2) THEN acc2
             ELSE column_loop_dyn(c, idx + 1, y2, acc2)

\* what the column col of the current page places
column_dyn ==
    LET start_idx == page * num_columns * equations_per_column
        end_idx == start_idx + num_columns * equations_per_column
        page_data == PySlice(all_equations, start_idx, end_idx)
        col_start == col * equations_per_column
        col_end == (col + 1) * equations_per_column
        col_data == PySlice(page_data, col_start, col_end)
        actual_count == Len(col_data)
        py == RInt(layout_dyn.base_y)
        c == [start_idx |-> start_idx, col_start |-> col_start,
              col_data |-> col_data, actual_count |-> actual_count,
              col |-> col, x |-> x_positions(layout_dyn, col),
              spacing_height |-> spacing_height_dyn(py, actual_count)]
    IN  [actual_count |-> actual_count,
         placed |-> IF actual_count = 0 THEN <<>>
                    ELSE column_loop_dyn(c, 0, py, <<>>)]

BeginPageDyn == BeginPage("dyn")
ColumnDyn == ColumnStep("dyn", column_dyn.placed, column_dyn.actual_count)
EndPageDyn == EndPage("dyn")
SaveDyn == Save("dyn")

----------------------------------------------------------------------------
(* src/math/generate_liner_equation_system.py: fixed advance, bottom check *)

calculate_layout_py(params) ==
    [margin |-> 15 * mm, column_gap |-> 10 * mm,
     base_y |-> PageHeight - 25 * mm,
     line_height |-> 7 * mm, footer_y |-> 15 * mm,
     column_width |->
        Rat(PageWidth - 2 * params.margin
                - (params.num_columns - 1) * params.column_gap,
            params.num_columns)]

layout_py ==
    calculate_layout_py([num_columns |-> num_columns,
                         equations_per_column |-> equations_per_column,
                         margin |-> 15 * mm, column_gap |-> 10 * mm])

\* y - 3.5 * line_height
draw_equation_py(py, line_height) == RSub(py, Rat(7 * line_height, 2))

eq_num_py(start_idx, k, idx) ==
    start_idx + k * equations_per_column + idx + 1

\* for idx in range(equations_per_column): draw, break near the footer
RECURSIVE column_loop_py(_, _, _, _)
column_loop_py(c, idx, py, acc) ==
    IF idx >= equations_per_column THEN acc
    ELSE LET eq_index == c.col * equations_per_column + idx
         IN  IF eq_index >= Len(c.page_equations) THEN acc
             ELSE LET eq_num == eq_num_py(c.start_idx, c.col, idx)
                      item == c.page_equations[eq_index + 1]
                      new_y == draw_equation_py(py, layout_py.line_height)
                      acc2 == Append(acc, Instruction(eq_num, c.x, py, item,
                                                      c.col, idx))
                  IN  IF RLess(new_y, RInt(layout_py.footer_y + 30 * mm))
                      THEN acc2
                      ELSE column_loop_py(c, idx + 1, new_y, acc2)

column_py ==
    LET start_idx == page * num_columns * equations_per_column
        end_idx == start_idx + num_columns * equations_per_column
        page_equations == PySlice(all_equations, start_idx, end_idx)
        c == [start_idx |-> start_idx, page_equations |-> page_equations,
              col |-> col, x |-> x_positions(layout_py, col)]
    IN  [actual_count |->
            Len(PySlice(page_equations, col * equations_per_column,
                        (col + 1) * equations_per_column)),
         placed |-> column_loop_py(c, 0, RInt(layout_py.base_y), <<>>)]

BeginPagePy == BeginPage("py")
ColumnPy == ColumnStep("py", column_py.placed, column_py.actual_count)
EndPagePy == EndPage("py")
SavePy == Save("py")

----------------------------------------------------------------------------
(* Hannah/generate_equation_system.py: fixed count, print_page *)

calculate_layout_hannah(params) ==
    [margin |-> 15 * mm, column_gap |-> 10 * mm,
     base_y |-> PageHeight - 20 * mm,
     line_height |-> 7 * mm, footer_y |-> 15 * mm,
     equations_per_page |-> params.num_columns * params.equations_per_column,
     column_width |->
        Rat(PageWidth - 2 * params.margin
                - (params.num_columns - 1) * params.column_gap,
            params.num_columns)]

layout_hannah ==
    calculate_layout_hannah([num_columns |-> num_columns,
                             equations_per_column |-> equations_per_column,
                             margin |-> 15 * mm, column_gap |-> 10 * mm,
                             total_equations |-> total_equations])

\* y - (len(equations) + 1) * line_height, two equations per system
draw_equation_hannah(py, line_height) == RSub(py, RInt((2 + 1) * line_height))

\* print_page's column loop; equations is the page's slice and page_no
\* the 1-based page number
RECURSIVE column_loop_hannah(_, _, _, _)
column_loop_hannah(c, idx, py, acc) ==
    IF idx >= c.params.equations_per_column THEN acc
    ELSE LET eq_num == (c.page_no - 1) * layout_hannah.equations_per_page
                         + c.col * c.params.equations_per_column + idx + 1
         IN  IF eq_num - 1 >= Len(c.equations) THEN acc
             ELSE LET item == c.equations[(eq_num - 1) + 1]
                      acc2 == Append(acc, Instruction(eq_num, c.x, py, item,
                                                      c.col, idx))
                  IN  column_loop_hannah(c, idx + 1,
                          draw_equation_hannah(py, layout_hannah.line_height),
                          acc2)

column_hannah ==
    LET start_idx == page * layout_hannah.equations_per_page
        end_idx == (page + 1) * layout_hannah.equations_per_page
        page_equations == PySlice(all_equations, start_idx, end_idx)
        c == [params |-> [num_columns |-> num_columns,
                          equations_per_column |-> equations_per_column,
                          total_equations |-> total_equations],
              equations |-> page_equations, page_no |-> page + 1,
              col |-> col, x |-> x_positions(layout_hannah, col)]
    IN  [actual_count |-> equations_per_column,
         placed |-> column_loop_hannah(c, 0, RInt(layout_hannah.base_y), <<>>)]

BeginPageHannah == BeginPage("hannah")
ColumnHannah ==
    ColumnStep("hannah", column_hannah.placed, column_hannah.actual_count)
EndPageHannah == EndPage("hannah")
SaveHannah == Save("hannah")

LayNext ==
    \/ BeginPageDyn \/ ColumnDyn \/ EndPageDyn \/ SaveDyn
    \/ BeginPagePy \/ ColumnPy \/ EndPagePy \/ SavePy

HannahNext ==
    \/ BeginPageHannah \/ ColumnHannah \/ EndPageHannah \/ SaveHannah

----------------------------------------------------------------------------
(* Specifications *)

InitGen == GenInit /\ FixIdle /\ LayIdle

SpecGen == InitGen /\ [][GenNext]_vars

\* a tuple the loop accepts
DrawAccepted ==
    /\ Draw
    /\ ~(a1' = 0 \/ b1' = 0 \/ a2' = 0 \/ b2' = 0)
    /\ ~RangeRejected(a1' * x' + b1' * y', a2' * x' + b2' * y')

\* The program keeps running (WF of its steps) and the random source is
\* fair: every six-tuple has positive probability at every iteration, so
\* the accepted ones are not avoided forever (SF of DrawAccepted).
SpecGenFair ==
    /\ InitGen /\ [][GenNext]_vars
    /\ WF_vars(GenNext)
    /\ SF_vars(DrawAccepted)

InitFix == FixInit /\ GenIdle /\ LayIdle

SpecFix == InitFix /\ [][FixNext]_vars

Init == LayInit({"dyn", "py"}) /\ GenIdle /\ FixIdle

Spec == Init /\ [][LayNext]_vars

InitHannah == LayInit({"hannah"}) /\ GenIdle /\ FixIdle

SpecHannah == InitHannah /\ [][HannahNext]_vars

----------------------------------------------------------------------------
(* Properties of the synthesizer *)

\* C1: every record generate_valid_equation_system returns has x, y in
\* [-20, 20], non-zero coefficients in [-20, 20], c1 = a1*x + b1*y and
\* c2 = a2*x + b2*y exactly, |c1| <= 120 and |c2| <= 120, and carries the
\* drawn solution (x, y).
C1_RecordValid ==
    pc = "returned" =>
        /\ x \in MinValue..MaxValue /\ y \in MinValue..MaxValue
        /\ \A v \in {a1, b1, a2, b2} : v \in MinValue..MaxValue /\ v # 0
        /\ c1 = a1 * x + b1 * y
        /\ c2 = a2 * x + b2 * y
        /\ Abs(c1) <= 120 /\ Abs(c2) <= 120
        /\ Len(ret) = 1
        /\ ret[1].solution = <<x, y>>

\* a record returned with a constant on the edge of the accepted range and
\* a negative one
C1_Witness ==
    /\ pc = "returned"
    /\ Abs(c1) = 120
    /\ c2 < 0

\* the tuple under test is one the loop must reject
TupleRejected ==
    \/ a1 = 0 \/ b1 = 0 \/ a2 = 0 \/ b2 = 0
    \/ Abs(a1 * x + b1 * y) > 120
    \/ Abs(a2 * x + b2 * y) > 120

\* C2: under a fair random source the rejection loop eventually returns a
\* record; a rejected tuple leads back to the head of the loop, where all
\* six values are drawn again, and no record exists before the return.
C2_NeverFails ==
    /\ <>(pc = "returned")
    /\ [][(pc = "test" /\ TupleRejected) => (pc' = "draw" /\ ret' = <<>>)]_vars
    /\ [][pc = "draw" =>
            /\ pc' = "test"
            /\ ret' = <<>>
            /\ \A v \in {x', y', a1', b1', a2', b2'} :
                    v \in MinValue..MaxValue]_vars
    /\ [](Len(ret) = 1 => pc = "returned")

\* a tuple rejected for its constants only
C2_Witness ==
    /\ pc = "test"
    /\ a1 # 0 /\ b1 # 0 /\ a2 # 0 /\ b2 # 0
    /\ Abs(a1 * x + b1 * y) <= 120
    /\ Abs(a2 * x + b2 * y) > 120

\* C9: applying the four substitutions to the already fixed-up equation
\* string yields the same string as applying them once.
C9_FixupIdempotent == fpc = "fixed_twice" => equation = once

\* a string the first application changed, fixed up twice
C9_Witness ==
    /\ fpc = "fixed_twice"
    /\ once # raw

----------------------------------------------------------------------------
(* Properties of the planners *)

\* The latest page: the one in progress, else the last finished one (none
\* before the first page begins).  pages only grows by EndPage appending
\* the page in progress, so every page of the document is the latest page
\* in the states from its first column to the next page's begin.
Latest ==
    IF lpc = "columns"
    THEN <<[instructions |-> instructions, solutions |-> solutions,
            assigned |-> assigned]>>
    ELSE IF Len(pages) > 0
    THEN <<[instructions |-> pages[Len(pages)].instructions,
            solutions |-> pages[Len(pages)].solutions,
            assigned |-> pages[Len(pages)].assigned]>>
    ELSE <<>>

\* the 0-based page number of the latest page
LatestPage == IF lpc = "columns" THEN page ELSE Len(pages) - 1

\* the instructions of column k (0-based) of a page, in placement order
ColumnOf(v, k) == SelectSeq(v.instructions, LAMBDA ins : ins.col = k)

\* f"{n}.({x},{y})"
KeyEntry(n, sol) ==
    ToString(n) \o ".(" \o ToString(sol[1]) \o "," \o ToString(sol[2]) \o ")"

\* C3: in fixed-count mode every page p in 1..P places exactly the C*K
\* systems at input positions [(p-1)*C*K, p*C*K), numbered
\* (p-1)*C*K + 1 .. p*C*K.
C3_FixedCountPages ==
    \A p \in 1..Len(pages) :
        LET itemsPerPage == num_columns * equations_per_column
            ins == pages[p].instructions
        IN  /\ Len(ins) = itemsPerPage
            /\ \A i \in 1..Len(ins) :
                /\ ins[i].eq_num = (p - 1) * itemsPerPage + i
                /\ ins[i].equations = all_equations[ins[i].eq_num].eq

\* C4: on every page the answer-key text is the two-space join, in
\* placement order, of "{displayIndex}.({x},{y})" per placed instruction,
\* displayIndex being the number drawn next to the system.
C4_AnswerKeyUsesDisplayIndex ==
    \A p \in 1..Len(pages) :
        LET ins == pages[p].instructions
        IN  pages[p].footer_text =
                Join([i \in 1..Len(ins) |->
                        KeyEntry(ins[i].eq_num, ins[i].solution)])

\* footerY + safetyMargin
SafetyLimit == RInt(layout_dyn.footer_y + 15 * mm)

\* itemHeight = 2 * lineHeight
ItemHeight == 2 * layout_dyn.line_height

\* remainingSpace of a column of n items
RemainingSpace(n) ==
    (layout_dyn.base_y - layout_dyn.footer_y - 10 * mm) - n * ItemHeight

\* the origin y of the item after m placed ones in a column of n items
NextY(n, m) ==
    Rat(n * layout_dyn.base_y - m * (n * ItemHeight + RemainingSpace(n)), n)

\* how many items of a column of n fit before the next y falls below the
\* limit
FitCount(n) ==
    LET stops == {m \in 1..n : RLess(NextY(n, m), SafetyLimit)}
    IN  IF stops = {} THEN n
        ELSE CHOOSE m \in stops : \A j \in stops : m <= j

\* C5: in dynamic-fit mode placing stops in a column as soon as the next y
\* would fall below footerY + 15 mm: no item has an origin below that
\* limit, the items of the column after the stop are neither instructions
\* nor answer-key entries, and the items before it (and the other columns)
\* stay placed.
C5_OverflowStops ==
    variant = "dyn" =>
        \A p \in 1..Len(Latest) :
            LET v == Latest[p]
            IN  /\ \A i \in 1..Len(v.instructions) :
                        ~RLess(v.instructions[i].y, SafetyLimit)
                /\ \A k \in 0..(Len(v.assigned) - 1) :
                        LET placed == ColumnOf(v, k)
                        IN  /\ Len(placed) = FitCount(v.assigned[k + 1])
                            /\ \A j \in 1..Len(placed) :
                                    placed[j].slot = j - 1
                /\ v.solutions = [i \in 1..Len(v.instructions) |->
                                    v.instructions[i].solution]
                /\ \A i \in 1..Len(v.instructions) :
                        v.instructions[i].col < Len(v.assigned)

\* the second column of a page stopped early while the first column's
\* placed items are still on the page
C5_Witness ==
    /\ variant = "dyn"
    /\ lpc = "columns"
    /\ Len(assigned) = 2
    /\ Len(ColumnOf(Latest[1], 0)) > 0
    /\ Len(ColumnOf(Latest[1], 1)) > 0
    /\ Len(ColumnOf(Latest[1], 1)) < assigned[2]

\* C6: in dynamic-fit mode the dropped items reported for a page are the
\* systems of its slice that were not placed: placed + reported dropped =
\* size of the slice.
C6_DropsReported ==
    variant = "dyn" =>
        \A p \in 1..Len(pages) :
            Len(pages[p].instructions) + pages[p].dropped
                = num_columns * equations_per_column

\* C7: in dynamic-fit mode every column is assigned the derived
\* itemsPerColumn = floor((baseY - footerY) / itemHeight) systems, and the
\* page slices and the total use it, so no column is assigned more.
C7_DerivedItemsPerColumn ==
    (variant = "dyn" /\ Len(assigned) > 0) =>
        /\ \A k \in 1..Len(assigned) :
                assigned[k] = layout_dyn.equations_per_column
        /\ total_equations
                = num_columns * layout_dyn.equations_per_column * page_num

\* C8: in dynamic-fit mode the origins of consecutive placed items of a
\* column of n > 0 items are itemHeight + remainingSpace / n apart, with
\* remainingSpace = availableSpace - n * itemHeight; a column of 0 items
\* emits no instruction and no answer-key entry.
C8_EvenSpacing ==
    variant = "dyn" =>
        \A p \in 1..Len(Latest) :
            LET v == Latest[p]
            IN  /\ \A k \in 0..(Len(v.assigned) - 1) :
                        LET placed == ColumnOf(v, k)
                            n == v.assigned[k + 1]
                        IN  IF n = 0 THEN placed = <<>>
                            ELSE \A j \in 1..(Len(placed) - 1) :
                                    REq(RSub(placed[j].y, placed[j + 1].y),
                                        RAdd(RInt(ItemHeight),
                                             Rat(RemainingSpace(n), n)))
                /\ Len(v.solutions) = Len(v.instructions)

\* a column of four items, all placed
C8_Witness ==
    /\ variant = "dyn"
    /\ Len(pages) > 0
    /\ pages[1].assigned[1] = 4
    /\ Len(ColumnOf(pages[1], 0)) = 4

\* C10: over the whole document, whatever the bottom check drops, the
\* number drawn for a placed item at page p (0-based), column k, slot idx
\* is p*itemsPerPage + k*itemsPerColumn + idx + 1, the item is the system
\* at that 1-based position of the input, and the numbers strictly increase
\* in render order (so no system is placed twice): within the latest page,
\* and from the last item of every earlier page to its first item.
C10_GlobalIndex ==
    \A p \in 1..Len(Latest) :
        LET r == Latest[p].instructions
        IN  /\ \A i \in 1..Len(r) :
                /\ r[i].eq_num =
                        LatestPage * num_columns * equations_per_column
                            + r[i].col * equations_per_column + r[i].slot + 1
                /\ r[i].eq_num \in 1..total_equations
                /\ r[i].equations = all_equations[r[i].eq_num].eq
            /\ \A i \in 1..(Len(r) - 1) : r[i].eq_num < r[i + 1].eq_num
            /\ \A q \in 1..LatestPage :
                    LET e == pages[q].instructions
                    IN  (Len(e) > 0 /\ Len(r) > 0) =>
                            e[Len(e)].eq_num < r[1].eq_num

\* a second page with placed items after a first page that dropped some
C10_Witness ==
    /\ variant = "dyn"
    /\ Len(pages) = 2
    /\ Len(pages[1].instructions) < num_columns * equations_per_column
    /\ Len(pages[2].instructions) > 0
    /\ num_columns > 1

\* C11: in dynamic-fit mode the redistributed spacing is never a reduction:
\* for every populated column and every equations_per_column >= 1 the
\* spacing_height of the column is >= 0, and the origins of two consecutive
\* placed items of the column are at least ItemHeight (2 * line_height)
\* apart, so their two-line blocks do not overlap.
C11_SpacingNonNegative ==
    (variant = "dyn" /\ equations_per_column >= 1) =>
        \A p \in 1..Len(Latest) :
            LET v == Latest[p]
            IN  \A k \in 0..(Len(v.assigned) - 1) :
                    LET placed == ColumnOf(v, k)
                        n == v.assigned[k + 1]
                    IN  n > 0 =>
                          /\ ~RLess(spacing_height_dyn(RInt(layout_dyn.base_y), n),
                                    RInt(0))
                          /\ \A j \in 1..(Len(placed) - 1) :
                                ~RLess(RSub(placed[j].y, placed[j + 1].y),
                                       RInt(ItemHeight))

====
